---- MODULE Spec2Model ----
(***************************************************************************)
(* blooms-db: a three-level bloom index kept in three record files (top,   *)
(* mid, bot), an append log of pending blooms and a metadata file holding  *)
(* the hash of the log.  The model follows src/src/db.rs, src/src/file.rs  *)
(* and src/src/pending.rs.  A bloom is modelled as the set of its set      *)
(* bits; a record file as the sequence of its 256-byte records.            *)
(* The meta module (read_meta, save_meta), VERSION, Pending::open,         *)
(* Pending::hash and File::iterator_from are used by db.rs but are not     *)
(* among the source files; they are modelled from the specification.       *)
(*                                                                         *)
(* Specifications: Spec (the write path, stopped and reopened at any       *)
(* statement), SpecQuery (the write path and the queries), SpecTorn (flush *)
(* of a log that ends in an entry cut short), SpecLog (the calls of a      *)
(* Pending on its own), SpecTwo (two iterators of one database).           *)
(***************************************************************************)
EXTENDS Integers, Sequences, FiniteSets, TLC

(* ------------------------------ bounds -------------------------------- *)
\* number of log entries appended in one behaviour, over all insert_blooms calls
MaxEntries == 4
\* number of flush calls in one behaviour
MaxFlushes == 2
\* number of times the process is stopped (at any statement) in one behaviour
MaxCrashes == 1

(* ------------------------- program constants -------------------------- *)
\* indices covered by one top record: from / 256 * 256, index += 256
TopSpan == 256
\* indices covered by one mid record, and mid records under one top record
MidSpan == 16
\* format version written to the metadata
VERSION == 1

(* ------------------------------ inputs -------------------------------- *)
\* bit positions of a bloom (2048 in the program): 0x01, 0x10, 0x100
BloomBits == {1, 2, 3}
\* the runs handed to insert_blooms, <<from, blooms>>: the runs of
\* test_database and test_database2, an empty run, and short runs that
\* write one index twice and cross the 256 boundary
InsertRuns ==
    { <<0, <<{}, {1}, {2}, {1, 2}>>>>,
      <<254, <<{3}, {1}, {2}, {1, 2}>>>>,
      <<0, <<>>>>,
      <<0, <<{1}>>>>,
      <<255, <<{1}>>>>,
      <<255, <<{2}, {1}>>>> }
\* the queries of two iterators alive at once: three of test_database
TwoQueries == { <<0, 3, {}>>, <<1, 2, {}>>, <<0, 3, {1}>> }
\* the entries <<index, bloom>> appended to a log used on its own
LogEntries == { <<0, {1}>>, <<1, {2}>>, <<255, {1}>> }
\* the queries <<from, to, bloom>>: those of test_database and
\* test_database2, and one for a single index inside the second mid group
Queries ==
    { <<0, 3, {}>>, <<0, 4, {}>>, <<1, 3, {}>>, <<1, 2, {}>>,
      <<0, 3, {1}>>, <<0, 3, {2}>>, <<2, 2, {2}>>,
      <<0, 257, {1}>>, <<0, 258, {3}>>, <<0, 256, {1}>>,
      <<255, 255, {1}>>, <<256, 256, {2}>>, <<256, 257, {2}>>,
      <<17, 17, {}>> }

(* ------------------------------ ethbloom ------------------------------ *)
\* Bloom::default()
ZeroBloom == {}
\* Bloom::accrue_bloom: bitwise or
accrue(old, bloom) == old \cup bloom
\* Bloom::contains_bloom: every bit of q is set in b
contains_bloom(b, q) == q \subseteq b

(* --------------------------- file.rs: File ---------------------------- *)
\* A File is [data: the records of the backing file, len: the cached
\* self.len in records, pos: the offset of the file handle in records].

\* fs::File::set_len: truncates, or extends with zero bytes
set_len(data, n) ==
    IF n <= Len(data) THEN SubSeq(data, 1, n)
    ELSE data \o [i \in 1..(n - Len(data)) |-> ZeroBloom]

File_open(data) == [data |-> data, len |-> Len(data), pos |-> 0]

ensure_space_for_write(f, pos) ==
    LET required_space == pos + 1
    IN  IF required_space > f.len
        THEN [f EXCEPT !.data = set_len(f.data, required_space), !.len = required_space]
        ELSE f

\* seek(SeekFrom::Start(pos * 256))
seek(f, pos) == [f EXCEPT !.pos = pos]

\* read_bloom: the record at pos (inside the file after ensure_space_for_write)
read_bloom(f, pos) == f.data[pos + 1]

\* A write through a handle opened with .append(true) (file.rs:21): the
\* operating system moves the offset to the end of the file before each
\* write, whatever the handle was seeked to, so the record lands after
\* the last record of the file.
write_all(f, bloom) ==
    [f EXCEPT !.data = Append(f.data, bloom), !.pos = Len(f.data) + 1]

accrue_bloom(f, pos, bloom) ==
    LET g == ensure_space_for_write(f, pos)
        old_bloom == read_bloom(g, pos)
    IN  write_all(seek(g, pos), accrue(old_bloom, bloom))

replace_bloom(f, pos, bloom) ==
    LET g == ensure_space_for_write(f, pos)
    IN  write_all(seek(g, pos), bloom)

(* ------------------------- pending.rs: Pending ------------------------ *)
\* The log is the sequence of its entries [index, bloom].
Entry(index, bloom) == [index |-> index, bloom |-> bloom]

\* Pending::append: one entry (8-byte index, 256-byte bloom) at the end of the log
append_at_start(log, index, bloom) == <<Entry(index, bloom)>> \o log
append(log, index, bloom) == Append(log, Entry(index, bloom))

\* Pending::clear: seek to 0, set_len(0), sync_all
clear(log) == <<>>

\* Pending::open: the log's handle writes at the end of the file whatever
\* its offset is (as the handle of File::open does)
Pending_open_plain == [append |-> FALSE]
Pending_open == [append |-> TRUE]

\* a write of one entry through a handle at offset off (in entries) that
\* is not in append mode
write_at(log, off, e) ==
    IF off >= Len(log) THEN Append(log, e) ELSE [log EXCEPT ![off + 1] = e]

\* PendingIterator::next with k - 1 entries read, on a log whose bytes
\* after the last whole entry are t: an index that cannot be read whole
\* (at the end of the file, or cut short) is None; an index followed by a
\* bloom that cannot be read whole is Some(Err(err))
PendingIterator_next(log, t, k) ==
    IF k <= Len(log) THEN "some"
    ELSE IF t = "bloom" THEN "err"
    ELSE "none"

\* code of a bloom's bytes
BloomCode(b) == (IF 1 \in b THEN 1 ELSE 0) + (IF 2 \in b THEN 2 ELSE 0) + (IF 3 \in b THEN 4 ELSE 0)

\* Pending::hash: a digest of the raw bytes of the log
HashWidth == 65536
RECURSIVE HashFrom(_, _)
HashFrom(h, log) ==
    IF log = <<>> THEN h
    ELSE HashFrom((h * 31 + 8 * Head(log).index + BloomCode(Head(log).bloom) + 1) % HashWidth,
                  Tail(log))
hash(log) == HashFrom(7, log)

(* ------------------------------- meta --------------------------------- *)
NoMeta == [version |-> 0, pending_hash |-> 0]
\* flush_meta: Meta { version: VERSION, pending_hash: self.pending.hash()? }
flush_meta_of_empty(log) == [version |-> VERSION, pending_hash |-> hash(<<>>)]
flush_meta(log) == [version |-> VERSION, pending_hash |-> hash(log)]

(* ------------------------------ db.rs --------------------------------- *)
\* Positions::from_index
from_index(index) ==
    [top |-> index \div TopSpan, mid |-> index \div MidSpan, bot |-> index]

\* Database::flush, where the for loop over the log goes after next():
\* Some(Ok(_)) runs the body, None leaves the loop, Some(Err(_)) returns
\* the error through tuple?
after_next(nx) ==
    CASE nx = "some" -> "fl_top"
      [] nx = "none" -> "fl_flush_top"
      [] OTHER -> "idle"

\* Database::flush, the loop over the log: each entry is accrued into its
\* top and mid records and replaces its bot record
RECURSIVE replay(_, _, _, _)
replay(t, m, b, log) ==
    IF log = <<>> THEN [top |-> t, mid |-> m, bot |-> b]
    ELSE LET e == Head(log)
             pos == from_index(e.index)
         IN  replay(accrue_bloom(t, pos.top, e.bloom),
                    accrue_bloom(m, pos.mid, e.bloom),
                    replace_bloom(b, pos.bot, e.bloom),
                    Tail(log))

\* Database::open, the match on read_meta: NotFound is accepted, a
\* metadata whose hash differs from the log's is "Malformed pending file"
OpenNeedsMeta(m, log) == m # NoMeta /\ hash(log) = m.pending_hash
open_ok(m, log) == m = NoMeta \/ hash(log) = m.pending_hash

(* ----------------------- file.rs: FileIterator ------------------------ *)
\* File::iterator_from: a cursor on the file's own handle, seeked to pos
iterator_from(f, pos) == seek(f, pos)

\* FileIterator::advance: seek(SeekFrom::Current(n * 256))
advance(f, n) == [f EXCEPT !.pos = f.pos + n]

\* FileIterator::next: read_exact of one record at the offset; UnexpectedEof is None
at_eof(f) == f.pos >= Len(f.data)
read_next(f) == f.data[f.pos + 1]
after_read(f) == [f EXCEPT !.pos = f.pos + 1]

(* ------------------------ db.rs: DatabaseIterator --------------------- *)
Top == [tag |-> "Top", mid |-> 0, bot |-> 0]
Mid(left) == [tag |-> "Mid", mid |-> left, bot |-> 0]
Bot(m, b) == [tag |-> "Bot", mid |-> m, bot |-> b]

NoIter == [status |-> "absent", state |-> Top, from |-> 0, to |-> 0, index |-> 0,
           bloom |-> ZeroBloom, out |-> <<>>, eof |-> FALSE, reads |-> 0]

\* Database::iterate_matching
iterate_matching(t, m, b, from, to, bloom) ==
    LET index == (from \div TopSpan) * TopSpan
        pos == from_index(index)
    IN  [it |-> [status |-> "active", state |-> Top, from |-> from, to |-> to,
                 index |-> index, bloom |-> bloom, out |-> <<>>, eof |-> FALSE,
                 reads |-> 0],
         top |-> iterator_from(t, pos.top),
         mid |-> iterator_from(m, pos.mid),
         bot |-> iterator_from(b, pos.bot)]

\* what next() returns when a cursor's next() is None: the ? on the Option
\* returns None from DatabaseIterator::next
ExhaustedIsErr == "err"
on_exhausted == "none"

\* the item of a cursor that ran out: status is what next() returned,
\* eof records that it was a cursor, not index > to, that ended it
ran_out(i) == [i EXCEPT !.status = on_exhausted, !.eof = TRUE]

\* the result of one turn of the loop that changes nothing
same(i, t, m, b) == [it |-> i, top |-> t, mid |-> m, bot |-> b]

\* if self.index > self.to { return None }
past_end_late(i) == i.index > i.to + 1
past_end(i) == i.index > i.to

\* IteratorState::Top: one top record decides whether the 256 indices
\* under it are searched or skipped
next_top_keeps_bot(i, t, m, b) ==
    IF at_eof(t) THEN [same(i, t, m, b) EXCEPT !.it = ran_out(i)]
    ELSE IF contains_bloom(read_next(t), i.bloom)
    THEN [same(i, t, m, b) EXCEPT !.top = after_read(t), !.it.state = Mid(MidSpan)]
    ELSE [same(i, t, m, b) EXCEPT !.top = after_read(t),
                                  !.it.index = i.index + TopSpan,
                                  !.mid = advance(m, MidSpan),
                                  !.it.state = Top]
next_top(i, t, m, b) ==
    IF at_eof(t) THEN [same(i, t, m, b) EXCEPT !.it = ran_out(i)]
    ELSE IF contains_bloom(read_next(t), i.bloom)
    THEN [same(i, t, m, b) EXCEPT !.top = after_read(t), !.it.state = Mid(MidSpan)]
    ELSE [same(i, t, m, b) EXCEPT !.top = after_read(t),
                                  !.it.index = i.index + TopSpan,
                                  !.mid = advance(m, MidSpan),
                                  !.bot = advance(b, TopSpan),
                                  !.it.state = Top]

\* IteratorState::Mid(left): one mid record decides whether the 16
\* indices under it are searched or skipped; a group wholly below from
\* (index + 16 < from) is skipped whatever its record holds
next_mid_tests_index(i, t, m, b) ==
    LET left == i.state.mid
    IN  IF left = 0 THEN [same(i, t, m, b) EXCEPT !.it.state = Top]
        ELSE IF at_eof(m) THEN [same(i, t, m, b) EXCEPT !.it = ran_out(i)]
        ELSE IF contains_bloom(read_next(m), i.bloom) /\ i.index >= i.from
        THEN [same(i, t, m, b) EXCEPT !.mid = after_read(m),
                                      !.it.state = Bot(left - 1, MidSpan)]
        ELSE [same(i, t, m, b) EXCEPT !.mid = after_read(m),
                                      !.it.index = i.index + MidSpan,
                                      !.bot = advance(b, MidSpan),
                                      !.it.state = Mid(left - 1)]
next_mid(i, t, m, b) ==
    LET left == i.state.mid
    IN  IF left = 0 THEN [same(i, t, m, b) EXCEPT !.it.state = Top]
        ELSE IF at_eof(m) THEN [same(i, t, m, b) EXCEPT !.it = ran_out(i)]
        ELSE IF contains_bloom(read_next(m), i.bloom) /\ i.index + MidSpan >= i.from
        THEN [same(i, t, m, b) EXCEPT !.mid = after_read(m),
                                      !.it.state = Bot(left - 1, MidSpan)]
        ELSE [same(i, t, m, b) EXCEPT !.mid = after_read(m),
                                      !.it.index = i.index + MidSpan,
                                      !.bot = advance(b, MidSpan),
                                      !.it.state = Mid(left - 1)]

\* IteratorState::Bot { mid, bot }: one bot record is read for the
\* running index, which is yielded if the record matches and index >= from
next_bot_keeps_index(i, t, m, b) ==
    LET mleft == i.state.mid
        bleft == i.state.bot
    IN  IF bleft = 0 THEN [same(i, t, m, b) EXCEPT !.it.state = Mid(mleft)]
        ELSE IF at_eof(b) THEN [same(i, t, m, b) EXCEPT !.it = ran_out(i)]
        ELSE IF contains_bloom(read_next(b), i.bloom) /\ i.index >= i.from
        THEN [same(i, t, m, b) EXCEPT !.bot = after_read(b),
                                      !.it.reads = i.reads + 1,
                                      !.it.out = Append(i.out, i.index),
                                      !.it.index = i.index + 1,
                                      !.it.state = Bot(mleft, bleft - 1)]
        ELSE [same(i, t, m, b) EXCEPT !.bot = after_read(b),
                                      !.it.reads = i.reads + 1,
                                      !.it.state = Bot(mleft, bleft - 1)]
next_bot(i, t, m, b) ==
    LET mleft == i.state.mid
        bleft == i.state.bot
    IN  IF bleft = 0 THEN [same(i, t, m, b) EXCEPT !.it.state = Mid(mleft)]
        ELSE IF at_eof(b) THEN [same(i, t, m, b) EXCEPT !.it = ran_out(i)]
        ELSE IF contains_bloom(read_next(b), i.bloom) /\ i.index >= i.from
        THEN [same(i, t, m, b) EXCEPT !.bot = after_read(b),
                                      !.it.reads = i.reads + 1,
                                      !.it.out = Append(i.out, i.index),
                                      !.it.index = i.index + 1,
                                      !.it.state = Bot(mleft, bleft - 1)]
        ELSE [same(i, t, m, b) EXCEPT !.bot = after_read(b),
                                      !.it.reads = i.reads + 1,
                                      !.it.index = i.index + 1,
                                      !.it.state = Bot(mleft, bleft - 1)]

\* DatabaseIterator::next, one turn of its loop; status "active" while
\* the consumer keeps calling next, out the items Some(Ok(_)) so far,
\* reads the number of bot records read so far
next(i, t, m, b) ==
    IF past_end(i) THEN [same(i, t, m, b) EXCEPT !.it.status = "none"]
    ELSE IF i.state.tag = "Top" THEN next_top(i, t, m, b)
    ELSE IF i.state.tag = "Mid" THEN next_mid(i, t, m, b)
    ELSE next_bot(i, t, m, b)

(* ------------------------------ state --------------------------------- *)
VARIABLES
    top, mid, bot,   \* the three record files
    pending,         \* the append log
    meta,            \* the persisted metadata, NoMeta before the first write
    db,              \* "closed", "open", or "malformed" after a failed open
    pc,              \* the statement the running call is at, "idle" between calls
    op,              \* the running call's locals: [from, blooms, k]
    flushedAll,      \* history: every <<index, bloom>> a flush has applied
    flushedLast,     \* history: index |-> the bloom most recently applied
    completed,       \* history: an insert_blooms or flush call has returned Ok
    it,              \* the DatabaseIterator, with the items collected from it
    it2,             \* a second DatabaseIterator of the same Database
    torn,            \* the bytes after the last whole entry of the log: "none",
                     \* "index" (part of an 8-byte index), "bloom" (an index and
                     \* part of a 256-byte bloom)
    res,             \* what the last call that returned returned: "none", "ok", "err"
    logpos,          \* the offset of the log's file handle, in entries
    replayed,        \* the entries the PendingIterator has yielded
    appended,        \* history: the entries appended since the last clear
    nEntries, nFl, nCrash

vars == <<top, mid, bot, pending, meta, db, pc, op, it, it2, torn, res,
          logpos, replayed, appended,
          flushedAll, flushedLast, completed, nEntries, nFl, nCrash>>

NoOp == [from |-> 0, blooms |-> <<>>, k |-> 0]
stores == <<top.data, mid.data, bot.data>>

Init ==
    /\ top = File_open(<<>>) /\ mid = File_open(<<>>) /\ bot = File_open(<<>>)
    /\ pending = <<>>
    /\ meta = NoMeta
    /\ db = "closed"
    /\ pc = "idle"
    /\ op = NoOp
    /\ flushedAll = {}
    /\ flushedLast = <<>>
    /\ completed = FALSE
    /\ it = NoIter /\ it2 = NoIter
    /\ torn = "none"
    /\ res = "none"
    /\ logpos = 0 /\ replayed = <<>> /\ appended = <<>>
    /\ nEntries = 0 /\ nFl = 0 /\ nCrash = 0

hist == <<flushedAll, flushedLast>>
logv == <<logpos, replayed, appended>>
counters == <<nEntries, nFl, nCrash>>

\* Database::open
Open ==
    /\ db # "open"
    /\ db' = IF open_ok(meta, pending) THEN "open" ELSE "malformed"
    /\ top' = File_open(top.data)
    /\ mid' = File_open(mid.data)
    /\ bot' = File_open(bot.data)
    /\ UNCHANGED <<pending, meta, pc, op, it, hist, completed, counters,
                   torn, res, it2, logv>>

\* Database::insert_blooms is called (&mut self: no iterator is alive)
InsertCall(from, blooms) ==
    /\ db = "open" /\ pc = "idle"
    /\ nEntries + Len(blooms) <= MaxEntries
    /\ nEntries' = nEntries + Len(blooms)
    /\ op' = [from |-> from, blooms |-> blooms, k |-> 0]
    /\ pc' = IF blooms = <<>> THEN "ins_sync" ELSE "ins_append"
    /\ it' = NoIter
    /\ it2' = NoIter
    /\ UNCHANGED <<top, mid, bot, pending, meta, db, hist, completed, nFl, nCrash,
                   torn, res, logv>>

\* self.pending.append(index, bloom)? for the next (index, bloom) of the zip
InsertAppend ==
    /\ pc = "ins_append"
    /\ pending' = append(pending, op.from + op.k, op.blooms[op.k + 1])
    /\ op' = [op EXCEPT !.k = op.k + 1]
    /\ pc' = IF op.k + 1 = Len(op.blooms) THEN "ins_sync" ELSE "ins_append"
    /\ UNCHANGED <<top, mid, bot, meta, db, it, hist, completed, counters,
                   torn, res, it2, logv>>

\* self.pending.flush()?
InsertSync ==
    /\ pc = "ins_sync"
    /\ pc' = "ins_meta"
    /\ UNCHANGED <<top, mid, bot, pending, meta, db, op, it, hist, completed, counters,
                   torn, res, it2, logv>>

\* self.flush_meta()
InsertMeta ==
    /\ pc = "ins_meta"
    /\ meta' = flush_meta(pending)
    /\ pc' = "idle"
    /\ op' = NoOp
    /\ completed' = TRUE
    /\ res' = "ok"
    /\ UNCHANGED <<top, mid, bot, pending, db, it, hist, counters,
                   torn, it2, logv>>

\* Database::flush is called (&mut self: no iterator is alive):
\* self.pending.iterator()? and the first next() of the for loop
FlushCall ==
    /\ db = "open" /\ pc = "idle"
    /\ nFl < MaxFlushes
    /\ nFl' = nFl + 1
    /\ LET nx == PendingIterator_next(pending, torn, 1)
       IN  /\ pc' = after_next(nx)
           /\ op' = IF nx = "err" THEN NoOp ELSE [NoOp EXCEPT !.k = 1]
           /\ res' = IF nx = "err" THEN "err" ELSE res
    /\ it' = NoIter /\ it2' = NoIter
    /\ UNCHANGED <<top, mid, bot, pending, meta, db, hist, completed, nEntries, nCrash,
                   torn, logv>>

\* self.top.accrue_bloom(pos.top, &bloom)?
FlushTop ==
    /\ pc = "fl_top"
    /\ LET e == pending[op.k]
       IN  top' = accrue_bloom(top, from_index(e.index).top, e.bloom)
    /\ pc' = "fl_mid"
    /\ UNCHANGED <<mid, bot, pending, meta, db, op, it, hist, completed, counters,
                   torn, res, it2, logv>>

\* self.mid.accrue_bloom(pos.mid, &bloom)?
FlushMid ==
    /\ pc = "fl_mid"
    /\ LET e == pending[op.k]
       IN  mid' = accrue_bloom(mid, from_index(e.index).mid, e.bloom)
    /\ pc' = "fl_bot"
    /\ UNCHANGED <<top, bot, pending, meta, db, op, it, hist, completed, counters,
                   torn, res, it2, logv>>

\* self.bot.replace_bloom(pos.bot, &bloom)?, then the next next() of the
\* for loop
FlushBot ==
    /\ pc = "fl_bot"
    /\ LET e == pending[op.k]
       IN  /\ bot' = replace_bloom(bot, from_index(e.index).bot, e.bloom)
           /\ flushedAll' = flushedAll \cup {<<e.index, e.bloom>>}
           /\ flushedLast' = [i \in DOMAIN flushedLast \cup {e.index} |->
                                 IF i = e.index THEN e.bloom ELSE flushedLast[i]]
    /\ LET nx == PendingIterator_next(pending, torn, op.k + 1)
       IN  /\ pc' = after_next(nx)
           /\ op' = IF nx = "err" THEN NoOp ELSE [op EXCEPT !.k = op.k + 1]
           /\ res' = IF nx = "err" THEN "err" ELSE res
    /\ UNCHANGED <<top, mid, pending, meta, db, it, completed, counters,
                   torn, it2, logv>>

\* self.top.flush()?; self.mid.flush()?; self.bot.flush()?
FlushStoresTopOnly ==
    /\ pc \in {"fl_flush_top", "fl_flush_mid", "fl_flush_bot"}
    /\ pc' = "fl_clear"
    /\ UNCHANGED <<top, mid, bot, pending, meta, db, op, it, hist, completed, counters,
                   torn, res, it2, logv>>
FlushStores ==
    /\ pc \in {"fl_flush_top", "fl_flush_mid", "fl_flush_bot"}
    /\ pc' = CASE pc = "fl_flush_top" -> "fl_flush_mid"
               [] pc = "fl_flush_mid" -> "fl_flush_bot"
               [] OTHER -> "fl_clear"
    /\ UNCHANGED <<top, mid, bot, pending, meta, db, op, it, hist, completed, counters,
                   torn, res, it2, logv>>

\* self.pending.clear()?
FlushClear ==
    /\ pc = "fl_clear"
    /\ pending' = clear(pending)
    /\ pc' = "fl_meta"
    /\ torn' = "none"
    /\ UNCHANGED <<top, mid, bot, meta, db, op, it, hist, completed, counters,
                   res, it2, logv>>

\* self.flush_meta()
FlushMeta ==
    /\ pc = "fl_meta"
    /\ meta' = flush_meta(pending)
    /\ pc' = "idle"
    /\ op' = NoOp
    /\ completed' = TRUE
    /\ res' = "ok"
    /\ UNCHANGED <<top, mid, bot, pending, db, it, hist, counters,
                   torn, it2, logv>>

\* The process stops at any statement (or exits between calls): the
\* handles are gone, the files, the log and the metadata stay as written.
Crash ==
    /\ db = "open"
    /\ nCrash < MaxCrashes
    /\ nCrash' = nCrash + 1
    /\ db' = "closed"
    /\ pc' = "idle"
    /\ op' = NoOp
    /\ top' = File_open(top.data)
    /\ mid' = File_open(mid.data)
    /\ bot' = File_open(bot.data)
    /\ it' = NoIter
    /\ it2' = NoIter
    /\ UNCHANGED <<pending, meta, hist, completed, nEntries, nFl,
                   torn, res, logv>>

\* Database::iterate_matching is called
QueryCall(from, to, bloom) ==
    /\ db = "open" /\ pc = "idle"
    /\ LET r == iterate_matching(top, mid, bot, from, to, bloom)
       IN  it' = r.it /\ top' = r.top /\ mid' = r.mid /\ bot' = r.bot
    /\ UNCHANGED <<pending, meta, db, pc, op, hist, completed, counters,
                   torn, res, it2, logv>>

\* one turn of the loop of DatabaseIterator::next, driven by collect()
IterStep ==
    /\ db = "open" /\ pc = "idle"
    /\ it.status = "active"
    /\ LET r == next(it, top, mid, bot)
       IN  it' = r.it /\ top' = r.top /\ mid' = r.mid /\ bot' = r.bot
    /\ UNCHANGED <<pending, meta, db, pc, op, hist, completed, counters,
                   torn, res, it2, logv>>

\* the calls and statements of the write path
Write ==
    \/ Open
    \/ \E run \in InsertRuns : InsertCall(run[1], run[2])
    \/ InsertAppend
    \/ InsertSync
    \/ InsertMeta
    \/ FlushCall
    \/ FlushTop
    \/ FlushMid
    \/ FlushBot
    \/ FlushStores
    \/ FlushClear
    \/ FlushMeta

\* the write path, stopped and reopened at any statement
Next ==
    \/ Write
    \/ Crash

Spec == Init /\ [][Next]_vars

\* the write path and the queries
NextQuery ==
    \/ Write
    \/ \E q \in Queries : QueryCall(q[1], q[2], q[3])
    \/ IterStep

SpecQuery == Init /\ [][NextQuery]_vars

(* ------------------- flush of a log with a torn tail ------------------ *)
\* the log after the first j appends of insert_blooms(run)
RunLog(run, j) == [k \in 1..j |-> Entry(run[1] + k - 1, run[2][k])]

\* A first insert_blooms into an empty directory was stopped inside an
\* append, leaving j whole entries and part of the next one (no metadata
\* is written before the end of the first call), and the directory was
\* opened again: without metadata open succeeds whatever the log holds.
InitTorn ==
    /\ top = File_open(<<>>) /\ mid = File_open(<<>>) /\ bot = File_open(<<>>)
    /\ \E run \in InsertRuns : \E j \in 0..MaxEntries :
          /\ j < Len(run[2])
          /\ pending = RunLog(run, j)
          /\ nEntries = j
    /\ torn \in {"index", "bloom"}
    /\ meta = NoMeta
    /\ db = "open"
    /\ pc = "idle"
    /\ op = NoOp
    /\ flushedAll = {}
    /\ flushedLast = <<>>
    /\ completed = FALSE
    /\ it = NoIter /\ it2 = NoIter
    /\ res = "none"
    /\ logpos = 0 /\ replayed = <<>> /\ appended = <<>>
    /\ nFl = 0 /\ nCrash = 0

\* the flush calls on that database
NextTorn ==
    \/ FlushCall
    \/ FlushTop
    \/ FlushMid
    \/ FlushBot
    \/ FlushStores
    \/ FlushClear
    \/ FlushMeta

SpecTorn == InitTorn /\ [][NextTorn]_vars

(* ------------------- two iterators of one database ------------------- *)
\* the database after open, insert_blooms(run) and flush
InitTwo ==
    /\ \E run \in InsertRuns :
          LET log == RunLog(run, Len(run[2]))
              r == replay(File_open(<<>>), File_open(<<>>), File_open(<<>>), log)
          IN  /\ top = r.top /\ mid = r.mid /\ bot = r.bot
              /\ flushedAll = {<<log[k].index, log[k].bloom>> : k \in DOMAIN log}
              /\ flushedLast = [i \in {log[k].index : k \in DOMAIN log} |->
                                   log[CHOOSE k \in DOMAIN log : log[k].index = i].bloom]
              /\ nEntries = Len(log)
    /\ pending = <<>>
    /\ meta = flush_meta(<<>>)
    /\ db = "open"
    /\ pc = "idle"
    /\ op = NoOp
    /\ completed = TRUE
    /\ it = NoIter /\ it2 = NoIter
    /\ torn = "none"
    /\ res = "ok"
    /\ logpos = 0 /\ replayed = <<>> /\ appended = <<>>
    /\ nFl = 1 /\ nCrash = 0

\* Database::iterate_matching is called for a second iterator (&self:
\* the first one stays alive); its cursors are on the same three handles
QueryCall2(from, to, bloom) ==
    /\ db = "open" /\ pc = "idle"
    /\ LET r == iterate_matching(top, mid, bot, from, to, bloom)
       IN  it2' = r.it /\ top' = r.top /\ mid' = r.mid /\ bot' = r.bot
    /\ UNCHANGED <<pending, meta, db, pc, op, hist, completed, counters,
                   torn, res, it, logv>>

\* one turn of the loop of the second iterator's next
IterStep2 ==
    /\ db = "open" /\ pc = "idle"
    /\ it2.status = "active"
    /\ LET r == next(it2, top, mid, bot)
       IN  it2' = r.it /\ top' = r.top /\ mid' = r.mid /\ bot' = r.bot
    /\ UNCHANGED <<pending, meta, db, pc, op, hist, completed, counters,
                   torn, res, it, logv>>

\* two iterators created and advanced in any order, no write in between
NextTwo ==
    \/ \E q \in TwoQueries : QueryCall(q[1], q[2], q[3])
    \/ IterStep
    \/ \E q \in TwoQueries : QueryCall2(q[1], q[2], q[3])
    \/ IterStep2

SpecTwo == InitTwo /\ [][NextTwo]_vars

(* -------------------------- the log on its own ------------------------ *)
\* Pending::append (&mut self: the iterator is gone)
LogAppend(index, bloom) ==
    /\ nEntries < MaxEntries
    /\ nEntries' = nEntries + 1
    /\ pending' = IF Pending_open.append THEN append(pending, index, bloom)
                  ELSE write_at(pending, logpos, Entry(index, bloom))
    /\ logpos' = IF Pending_open.append THEN Len(pending) + 1 ELSE logpos + 1
    /\ appended' = Append(appended, Entry(index, bloom))
    /\ replayed' = <<>>
    /\ pc' = "idle"
    /\ UNCHANGED <<top, mid, bot, meta, db, op, it, it2, torn, res, hist, completed,
                   nFl, nCrash>>

\* Pending::flush (&mut self: the iterator is gone): sync_all
LogFlush ==
    /\ replayed' = <<>>
    /\ pc' = "idle"
    /\ UNCHANGED <<top, mid, bot, pending, meta, db, op, it, it2, torn, res, hist,
                   completed, counters, logpos, appended>>

\* Pending::clear (&mut self: the iterator is gone)
LogClear ==
    /\ pending' = clear(pending)
    /\ logpos' = 0
    /\ appended' = <<>>
    /\ replayed' = <<>>
    /\ pc' = "idle"
    /\ UNCHANGED <<top, mid, bot, meta, db, op, it, it2, torn, res, hist, completed,
                   counters>>

\* Pending::iterator: seek to 0; an iterator still alive is dropped
LogIterate ==
    /\ logpos' = 0
    /\ replayed' = <<>>
    /\ pc' = "log_iter"
    /\ UNCHANGED <<top, mid, bot, pending, meta, db, op, it, it2, torn, res, hist,
                   completed, counters, appended>>

\* PendingIterator::next, called by the consumer until it returns None
LogNext ==
    /\ pc = "log_iter"
    /\ IF PendingIterator_next(pending, torn, logpos + 1) = "some"
       THEN /\ replayed' = Append(replayed, pending[logpos + 1])
            /\ logpos' = logpos + 1
            /\ pc' = pc
       ELSE /\ pc' = "log_done"
            /\ UNCHANGED <<replayed, logpos>>
    /\ UNCHANGED <<top, mid, bot, pending, meta, db, op, it, it2, torn, res, hist,
                   completed, counters, appended>>

\* any sequence of calls on a Pending
NextLog ==
    \/ \E e \in LogEntries : LogAppend(e[1], e[2])
    \/ LogFlush
    \/ LogClear
    \/ LogIterate
    \/ LogNext

SpecLog == Init /\ [][NextLog]_vars

(* ============================== claims ================================ *)
Range(seq) == {seq[k] : k \in DOMAIN seq}
IsAscending(seq) == \A k \in 1..(Len(seq) - 1) : seq[k] < seq[k + 1]
Finished(i) == i.status \in {"none", "err"}
Max(S) == CHOOSE x \in S : \A y \in S : y <= x
\* the state between calls of an open database
Idle == db = "open" /\ pc = "idle"

\* the cursor the iterator is about to read has no record left
NeededCursorAtEof(i) ==
    \/ i.state.tag = "Top" /\ at_eof(top)
    \/ i.state.tag = "Mid" /\ i.state.mid > 0 /\ at_eof(mid)
    \/ i.state.tag = "Bot" /\ i.state.bot > 0 /\ at_eof(bot)

(* C1: after inserts and flushes ending in a flush, a finished query has
   yielded exactly the indices of [from, to] whose record in the bot file
   is a superset of the query bloom, in strictly ascending order. *)
C1_QueryYieldsExactlyTheMatches ==
    (Idle /\ pending = <<>> /\ Finished(it)) =>
        /\ IsAscending(it.out)
        /\ Range(it.out) = {x \in it.from..it.to :
                               x < Len(bot.data) /\ contains_bloom(bot.data[x + 1], it.bloom)}

(* C2 as stated: an iterator ended by a cursor that ran out of records
   (running index still <= to) has reported an error item. *)
C2_ExhaustionIsAnError ==
    it.eof => it.status = "err"

(* C2 as amended: a cursor that runs out while the running index is
   still <= to ends the sequence with None, as index > to does; a
   finished iterator has never reported an error item. *)
C2_ExhaustionEndsTheSequence ==
    /\ Finished(it) => (it.status = "none" /\ (it.index > it.to \/ it.eof))
    /\ it.eof => (it.index <= it.to /\ NeededCursorAtEof(it) /\ it.status = "none")

C2_Witness ==
    it.eof /\ it.status = "none" /\ it.index <= it.to /\ it.out # <<>>

(* C3: a finished query with the all-zero bloom has yielded exactly the
   indices of [from, to] that have a record in the bot file, and the bot
   file has a record for exactly the indices up to the highest index
   flushed (after four blooms at 0, query(0, 4, zero) yields 0, 1, 2, 3). *)
Indexed == IF DOMAIN flushedLast = {} THEN {} ELSE 0..Max(DOMAIN flushedLast)
Stored == 0..(Len(bot.data) - 1)
C3_ZeroBloomYieldsTheIndexed ==
    (Idle /\ pending = <<>> /\ Finished(it) /\ it.bloom = ZeroBloom) =>
        /\ IsAscending(it.out)
        /\ Range(it.out) = (it.from..it.to) \cap Stored
        /\ Stored = Indexed

(* C4: when flush is stopped at any statement, the persisted metadata
   still holds the hash of the persisted log, so the next open succeeds. *)
InFlush == pc \in {"fl_top", "fl_mid", "fl_bot", "fl_flush_top", "fl_flush_mid",
                   "fl_flush_bot", "fl_clear", "fl_meta"}
C4_InterruptedFlushKeepsMetaOfLog ==
    [][(InFlush /\ db' = "closed") => open_ok(meta', pending')]_vars

(* C5: replaying the log a second time (after a reopen) leaves the three
   files as the first replay left them. *)
C5_ReplayTwiceIsReplayOnce ==
    pc = "fl_flush_top" =>
        LET again == replay(File_open(top.data), File_open(mid.data),
                            File_open(bot.data), pending)
        IN  <<again.top.data, again.mid.data, again.bot.data>> = stores

(* C6: between calls of an open database the metadata holds the hash of
   the log (there is no metadata only while no insert_blooms or flush has
   completed); when flush returns the log is empty and the metadata holds
   the hash of the empty log. *)
C6_MetaIsHashOfLog ==
    [][(pc' = "idle" /\ db' = "open") =>
          /\ IF completed' THEN meta' = [version |-> VERSION, pending_hash |-> hash(pending')]
                           ELSE meta' = NoMeta
          /\ pc = "fl_meta" =>
                (pending' = <<>> /\ meta'.pending_hash = hash(<<>>))]_vars

C6_Witness ==
    Idle /\ completed /\ pending # <<>> /\ nFl > 0

(* C7: open fails (malformed pending file) exactly when metadata exists
   and its hash differs from the hash of the log; it succeeds without
   metadata or with the hashes equal; a failed open leaves the files, the
   log and the metadata as they were. *)
C7_OpenFailsExactlyOnMismatch ==
    [][(db = "closed" /\ db' # "closed") =>
          /\ db' = "malformed" <=> (meta # NoMeta /\ meta.pending_hash # hash(pending))
          /\ db' \in {"open", "malformed"}
          /\ db' = "malformed" => (stores' = stores /\ pending' = pending /\ meta' = meta)]_vars

C7_Witness ==
    db = "malformed" /\ meta # NoMeta /\ pending # <<>>

(* C8: the k-th append of insert_blooms(from, blooms) puts (from + k,
   blooms[k]) at the end of the log and changes nothing before it; once
   all are appended the log ends with exactly the run, in order; no
   statement of insert_blooms changes top, mid or bot: only the replay
   statements of flush do. *)
InInsert(p) == p \in {"ins_append", "ins_sync", "ins_meta"}
C8_InsertAppendsRunAndKeepsStores ==
    [][/\ (pc = "ins_append" /\ db' = "open") =>
              pending' = pending \o <<Entry(op.from + op.k, op.blooms[op.k + 1])>>
       /\ (pc \in {"ins_sync", "ins_meta"} /\ db' = "open") =>
              /\ pending' = pending
              /\ LET n == Len(op.blooms)
                 IN  /\ Len(pending) >= n
                     /\ \A j \in 1..n :
                            pending[Len(pending) - n + j] = Entry(op.from + j - 1, op.blooms[j])
       /\ (InInsert(pc) \/ InInsert(pc')) => stores' = stores
       /\ stores' # stores => pc \in {"fl_top", "fl_mid", "fl_bot"}]_vars

C8_Witness ==
    /\ pc = "ins_meta" /\ Len(op.blooms) >= 2 /\ Len(pending) > Len(op.blooms)
    /\ bot.data # <<>>

(* C9: after a completed flush, top record i is the union of every bloom
   flushed for an index of [256i, 256i + 256), mid record i the union over
   [16i, 16i + 16), bot record i the bloom last flushed for i (zero if none),
   and every flushed index has its three records. *)
UnionOf(span, i) ==
    UNION {p[2] : p \in {q \in flushedAll : q[1] \div span = i}}
C9_RecordsAreUnionsOfFlushed ==
    (Idle /\ pending = <<>>) =>
        /\ \A i \in 0..(Len(top.data) - 1) : top.data[i + 1] = UnionOf(TopSpan, i)
        /\ \A i \in 0..(Len(mid.data) - 1) : mid.data[i + 1] = UnionOf(MidSpan, i)
        /\ \A i \in 0..(Len(bot.data) - 1) :
              bot.data[i + 1] = IF i \in DOMAIN flushedLast THEN flushedLast[i] ELSE ZeroBloom
        /\ \A i \in DOMAIN flushedLast :
              /\ i < Len(bot.data)
              /\ i \div MidSpan < Len(mid.data)
              /\ i \div TopSpan < Len(top.data)

(* C10: every step keeps every bit of every top and mid record. *)
KeepsBits(old, new) ==
    \A i \in 1..Len(old) : i <= Len(new) /\ old[i] \subseteq new[i]
C10_TopAndMidAreMonotone ==
    [][KeepsBits(top.data, top.data') /\ KeepsBits(mid.data, mid.data')]_vars

(* C11: every turn of the iterator's loop that leaves it active lowers a
   natural-number measure (the indices left up to to, then the number of
   turns, at most 4, before the running index next advances), and a turn
   taken with nothing left ends the sequence: repeated next calls end
   after finitely many turns.  A query with from = to yields at most one
   index. *)
StateRank(st) ==
    IF st.tag = "Bot" THEN (IF st.bot = 0 THEN 4 ELSE 0)
    ELSE IF st.tag = "Mid" THEN (IF st.mid = 0 THEN 3 ELSE 1)
    ELSE 2
Measure(i) ==
    IF i.index > i.to THEN 0 ELSE 5 * (i.to + 1 - i.index) + StateRank(i.state)
C11_EveryTurnLowersTheMeasure ==
    [][IterStep =>
          /\ it'.status = "active" => Measure(it') < Measure(it)
          /\ Measure(it) = 0 => it'.status = "none"
          /\ it'.status \in {"active", "none"}
          /\ it'.from = it'.to => Len(it'.out) <= 1]_vars

C11_Witness ==
    /\ it.status = "none" /\ ~it.eof /\ it.from = it.to /\ Len(it.out) = 1
    /\ it.state.tag = "Bot" /\ it.reads > 1

(* C16: while an iterator exists the bot cursor stands at the running
   index; in Top the index is a multiple of 256, the top cursor at
   index >> 8 and the mid cursor at index >> 4; in Mid(left) the index is
   a multiple of 16 with index mod 256 = 16 * (16 - left) mod 256 and the
   mid cursor at index >> 4; in Bot{mid, bot} index mod 16 = (16 - bot)
   mod 16.  A Top turn that reads consumes exactly one top record, a
   Mid(left > 0) turn one mid record, a Bot(bot > 0) turn one bot record,
   whichever branch it takes. *)
CursorsInStep(i) ==
    /\ bot.pos = i.index
    /\ i.state.tag = "Top" =>
          /\ i.index % TopSpan = 0
          /\ top.pos = i.index \div TopSpan
          /\ mid.pos = i.index \div MidSpan
    /\ i.state.tag = "Mid" =>
          /\ i.state.mid \in 0..MidSpan
          /\ i.index % MidSpan = 0
          /\ i.index % TopSpan = (MidSpan * (MidSpan - i.state.mid)) % TopSpan
          /\ mid.pos = i.index \div MidSpan
    /\ i.state.tag = "Bot" =>
          /\ i.state.bot \in 0..MidSpan
          /\ i.index % MidSpan = (MidSpan - i.state.bot) % MidSpan
ConsumesOne(i) ==
    CASE i.state.tag = "Top" ->
            top.pos' = top.pos + 1
      [] i.state.tag = "Mid" /\ i.state.mid > 0 ->
            top.pos' = top.pos /\ mid.pos' = mid.pos + 1
      [] i.state.tag = "Bot" /\ i.state.bot > 0 ->
            top.pos' = top.pos /\ mid.pos' = mid.pos /\ bot.pos' = bot.pos + 1
      [] OTHER ->
            top.pos' = top.pos /\ mid.pos' = mid.pos /\ bot.pos' = bot.pos
C16_CursorsFollowTheIndex ==
    [][/\ it'.status # "absent" => CursorsInStep(it)'
       /\ (IterStep /\ ~past_end(it) /\ ~it'.eof) => ConsumesOne(it)]_vars

C16_Witness ==
    /\ it.status = "active" /\ it.state.tag = "Bot" /\ it.state.mid = MidSpan - 2
    /\ it.state.bot \in 1..(MidSpan - 1) /\ it.index > MidSpan /\ it.out # <<>>

(* C18: over the life of an iterator the number of bot records read is
   at most to - (from / 256 * 256) + 1, and every bot record read is the
   record of an index <= to. *)
BlockStart(from) == (from \div TopSpan) * TopSpan
C18_BotReadsAreBounded ==
    [][/\ it'.reads <= it'.to - BlockStart(it'.from) + 1
       /\ (IterStep /\ bot.pos' # bot.pos /\ it.state.tag = "Bot") =>
              /\ it'.reads = it.reads + 1
              /\ bot.pos' = bot.pos + 1
              /\ bot.pos <= it.to
       /\ (IterStep /\ it'.reads # it.reads) =>
              (it.state.tag = "Bot" /\ bot.pos' = bot.pos + 1)]_vars

C18_Witness ==
    /\ it.status = "none" /\ ~it.eof /\ it.reads > 1
    /\ it.reads = it.to - BlockStart(it.from) + 1

(* C17: the range test of the Mid arm (index + 16 >= from) changes only
   how many bot records are read, never what is yielded: a finished query
   has yielded the sequence that an iterator descending into Bot whenever
   the mid record contains the bloom yields over the same files, and has
   read at most as many bot records. *)
\* the Mid arm without the range test
next_mid_descending(i, t, m, b) ==
    LET left == i.state.mid
    IN  IF left = 0 THEN [same(i, t, m, b) EXCEPT !.it.state = Top]
        ELSE IF at_eof(m) THEN [same(i, t, m, b) EXCEPT !.it = ran_out(i)]
        ELSE IF contains_bloom(read_next(m), i.bloom)
        THEN [same(i, t, m, b) EXCEPT !.mid = after_read(m),
                                      !.it.state = Bot(left - 1, MidSpan)]
        ELSE [same(i, t, m, b) EXCEPT !.mid = after_read(m),
                                      !.it.index = i.index + MidSpan,
                                      !.bot = advance(b, MidSpan),
                                      !.it.state = Mid(left - 1)]
\* the iterator with that Mid arm, called until it returns None
RECURSIVE collect_descending(_)
collect_descending(r) ==
    IF r.it.status # "active" THEN r.it
    ELSE collect_descending(
             IF r.it.index > r.it.to THEN [r EXCEPT !.it.status = "none"]
             ELSE IF r.it.state.tag = "Top" THEN next_top(r.it, r.top, r.mid, r.bot)
             ELSE IF r.it.state.tag = "Mid" THEN next_mid_descending(r.it, r.top, r.mid, r.bot)
             ELSE next_bot(r.it, r.top, r.mid, r.bot))
Descending(i) ==
    collect_descending(iterate_matching(top, mid, bot, i.from, i.to, i.bloom))
C17_RangeTestOnlySavesReads ==
    Finished(it) =>
        /\ it.out = Descending(it).out
        /\ it.reads <= Descending(it).reads

C17_Witness ==
    /\ Finished(it) /\ it.out # <<>>
    /\ it.reads < Descending(it).reads

(* C13: a write of v at position pos of a record file leaves v at pos,
   every other record that existed unchanged, the records between the old
   end and pos all-zero, and exactly max(old count, pos + 1) records;
   replace writes the given bloom, accrue the union of the old record
   (zero past the old end) and the given bloom. *)
RecordAt(data, pos) == IF pos < Len(data) THEN data[pos + 1] ELSE ZeroBloom
WrittenAt(old, new, pos, v) ==
    /\ Len(new) = IF Len(old) > pos + 1 THEN Len(old) ELSE pos + 1
    /\ RecordAt(new, pos) = v
    /\ \A i \in 0..(Len(new) - 1) : i # pos => new[i + 1] = RecordAt(old, i)
C13_WriteLandsAtItsPosition ==
    [][LET e == pending[op.k]
           p == from_index(e.index)
       IN  /\ (pc = "fl_top" /\ pc' = "fl_mid") =>
                  WrittenAt(top.data, top.data', p.top,
                            accrue(RecordAt(top.data, p.top), e.bloom))
           /\ (pc = "fl_mid" /\ pc' = "fl_bot") =>
                  WrittenAt(mid.data, mid.data', p.mid,
                            accrue(RecordAt(mid.data, p.mid), e.bloom))
           /\ (pc = "fl_bot" /\ InFlush') =>
                  WrittenAt(bot.data, bot.data', p.bot, e.bloom)]_vars

(* C15: insert_blooms rewrites the metadata only after every entry of the
   run is appended and the log is flushed; flush clears the log only after
   every entry of the log is applied and top, mid and bot are flushed, in
   that order, and rewrites the metadata only after the log is cleared;
   nothing else rewrites the metadata or shortens the log. *)
C15_DurableStepsAreOrdered ==
    [][/\ meta' # meta => pc \in {"ins_meta", "fl_meta"}
       /\ pc' = "ins_meta" => (pc = "ins_sync" /\ op.k = Len(op.blooms) /\ pending' = pending)
       /\ pc' = "ins_sync" => (pc \in {"idle", "ins_append"} /\ op'.k = Len(op'.blooms))
       /\ pc' = "ins_append" => (op'.k < Len(op'.blooms) /\ meta' = meta)
       /\ (pc = "idle" /\ InFlush') => op'.k = 1
       /\ (pc \in {"fl_top", "fl_mid"} /\ InFlush') => op'.k = op.k
       /\ (pc = "fl_bot" /\ InFlush') =>
              (op'.k = op.k + 1 /\ <<pending[op.k].index, pending[op.k].bloom>> \in flushedAll')
       /\ pc' = "fl_flush_top" =>
              (pc \in {"idle", "fl_bot"} /\ op'.k = Len(pending) + 1 /\ pending' = pending)
       /\ pc' = "fl_flush_mid" => pc = "fl_flush_top"
       /\ pc' = "fl_flush_bot" => pc = "fl_flush_mid"
       /\ pc' = "fl_clear" => pc = "fl_flush_bot"
       /\ Len(pending') < Len(pending) => (pc = "fl_clear" /\ meta' = meta)
       /\ pc' = "fl_meta" => (pc = "fl_clear" /\ pending' = <<>>)
       /\ pc \in {"fl_flush_top", "fl_flush_mid", "fl_flush_bot", "fl_clear", "fl_meta"} =>
              stores' = stores]_vars

C15_Witness ==
    /\ pc = "fl_meta" /\ pending = <<>> /\ flushedAll # {}
    /\ meta # NoMeta /\ meta.pending_hash # hash(<<>>)

(* C19: in every state, also between the three writes of one log entry
   and when flush is stopped, every index i that has a bot record has its
   mid and top records, and top[i >> 8] contains mid[i >> 4], which
   contains bot[i]. *)
C19_HierarchyHoldsAtEveryStep ==
    \A i \in 0..(Len(bot.data) - 1) :
        /\ from_index(i).mid < Len(mid.data)
        /\ from_index(i).top < Len(top.data)
        /\ bot.data[i + 1] \subseteq mid.data[from_index(i).mid + 1]
        /\ mid.data[from_index(i).mid + 1] \subseteq top.data[from_index(i).top + 1]

(* C12: when the log ends in an entry cut short, inside its 8-byte index
   or inside its 256-byte bloom, the replay of flush ends at it without an
   error: once the whole entries before it are applied flush goes on to
   flush the files, and no flush returns an error. *)
AtTornTail ==
    /\ torn # "none"
    /\ \/ pc = "idle" /\ pending = <<>>
       \/ pc = "fl_bot" /\ op.k = Len(pending)
C12_TornTailEndsReplayQuietly ==
    [][/\ res' # "err"
       /\ AtTornTail => pc' = "fl_flush_top"]_vars

(* C14: whatever appends, flushes, clears and whole or abandoned
   iterations came before, the log holds exactly the entries appended
   since the last clear, in the order of their appends, and an iteration
   that has run to its end has replayed exactly those, each once, in that
   order. *)
C14_ReplayIsTheAppendsSinceClear ==
    /\ pending = appended
    /\ pc = "log_iter" => replayed = SubSeq(appended, 1, Len(replayed))
    /\ pc = "log_done" => replayed = appended

C14_Witness ==
    /\ pc = "log_done" /\ Len(replayed) >= 2 /\ replayed[1] # replayed[2]
    /\ nEntries > Len(pending)

(* C20: two iterators of one database, with no write in between and
   advanced in any interleaving, each yield the sequence they yield when
   run alone over the same files. *)
\* next called until it returns None, nothing else touching the files
RECURSIVE collect(_)
collect(r) ==
    IF r.it.status # "active" THEN r.it.out
    ELSE collect(next(r.it, r.top, r.mid, r.bot))
Alone(i) == collect(iterate_matching(top, mid, bot, i.from, i.to, i.bloom))
C20_IteratorsDoNotInterfere ==
    /\ Finished(it) => it.out = Alone(it)
    /\ Finished(it2) => it2.out = Alone(it2)

====
